---------------------------- MODULE Spec2Model ----------------------------
(***************************************************************************)
(* The packet-diagram chunk (module 6542 of the site's server bundle):     *)
(* the packet store (db), populate, getNextFittingBlock and clear.         *)
(*                                                                         *)
(* A block is a record [start, end, label]; a block written without an end *)
(* carries end = NoEnd (JavaScript's undefined).  A Word is a sequence of  *)
(* blocks, the store a sequence of Words.                                  *)
(***************************************************************************)
EXTENDS Integers, Sequences, FiniteSets, TLC

(***************************************************************************)
(* Program constants and the bounds of the model.                          *)
(***************************************************************************)
\* the ceiling of the while loop in populate: getPacket().length < 1e4
MaxPacketSize == 10000

\* the increase of paddingY in getConfig when showBits is set
ShowBitsPadding == 10

\* undefined, as the parser leaves `end` of a one-bit block
NoEnd == -1

\* small diagrams use the bit indices 0..MaxBit
MaxBit == 4

\* bitsPerRow of the default configuration, scaled down to the small diagrams
DefaultBitsPerRow == 3

\* populate is run for at most 2^RunDepth steps of its loops in one call.  A
\* call takes one step per block at the head of the for-of loop, one more at
\* its end, and one per turn of the inner loop; a turn breaks (once per
\* block) or pushes a Word (at most MaxPacketSize times), which is far fewer
\* than 2^15 steps for every diagram below.
RunDepth == 15

\* the user's bitsPerRow is left out or one of 1..MaxUserBitsPerRow
MaxUserBitsPerRow == 2

\* paddingY of the default configuration
DefaultPaddingY == 5

\* bitWidth, rowHeight and paddingX of the default configuration, scaled down
DefaultBitWidth == 4

DefaultRowHeight == 3

DefaultPaddingX == 1

\* the user's paddingY is left out or one of 0..MaxUserPaddingY
MaxUserPaddingY == 2

\* getConfig is called on its own up to MaxConfigCalls times before the
\* user's options change
MaxConfigCalls == 3

\* in a session populate and pushWord are called while the store holds
\* fewer Words than this
MaxSessionWords == 4

\* the calls populate makes of getNextFittingBlock are followed until the
\* populate call has pushed MaxSplitWords Words
MaxSplitWords == 8

\* in a drawing session populate is called while the store holds fewer
\* Words than this
MaxDrawWords == 3

\* at most MaxParses parse calls are made on the one store
MaxParses == 3

\* a populate call is followed step by step on a store of fewer than
\* MaxStepWords Words, or on one filled up to the ceiling
MaxStepWords == 2

\* the non-positive values of bitsPerRow tried: 0 down to -MaxNonPositive
MaxNonPositive == 4

Labels == <<"A", "B", "C", "D", "E", "F", "G", "H">>

LabelOf(i) == Labels[((i - 1) % Len(Labels)) + 1]

Max(a, b) == IF a >= b THEN a ELSE b

Min(a, b) == IF a <= b THEN a ELSE b

(***************************************************************************)
(* Blocks.                                                                 *)
(***************************************************************************)
HasEnd(b) == b.end # NoEnd

\* c ?? r
EndOf(b) == IF HasEnd(b) THEN b.end ELSE b.start

Block(s, e, l) == [start |-> s, end |-> e, label |-> l]

(***************************************************************************)
(* Errors: what populate throws, with the numbers its message names.       *)
(***************************************************************************)
NoError == [kind |-> "none", start |-> 0, end |-> 0, expected |-> 0]

\* Error(`Packet block ${r} - ${c} is invalid. End must be greater than start.`)
InvalidError(r, c) == [kind |-> "invalid", start |-> r, end |-> c, expected |-> 0]

\* Error(`Packet block ${r} - ${c??r} is not contiguous. It should start from ${e+1}.`)
NotContiguousError(r, c, e) ==
    [kind |-> "notContiguous", start |-> r, end |-> c, expected |-> e + 1]

\* Error(`Block start ${t.start} is greater than block end ${t.end}.`)
StartGreaterError(t) ==
    [kind |-> "startGreater", start |-> t.start, end |-> t.end, expected |-> 0]

(***************************************************************************)
(* getNextFittingBlock(t, e, a): t the block, e the row, a bitsPerRow.     *)
(* Returns [err, fit, rest, more]: more is FALSE when the second element   *)
(* of the returned pair is undefined.                                      *)
(***************************************************************************)
\* getNextFittingBlock with the remainder starting one bit late
getNextFittingBlockSkipsBit(t, e, a) ==
    LET d == IF t.end = NoEnd THEN [t EXCEPT !.end = t.start] ELSE t
    IN  IF d.start > d.end
        THEN [err |-> StartGreaterError(d), fit |-> d, rest |-> d, more |-> FALSE]
        ELSE IF d.end + 1 <= e * a
        THEN [err |-> NoError, fit |-> d, rest |-> d, more |-> FALSE]
        ELSE [err |-> NoError,
              fit |-> Block(d.start, e * a - 1, d.label),
              rest |-> Block(e * a + 1, d.end, d.label),
              more |-> TRUE]

\* getNextFittingBlock with the label left off the remainder
getNextFittingBlockLosesLabel(t, e, a) ==
    LET d == IF t.end = NoEnd THEN [t EXCEPT !.end = t.start] ELSE t
    IN  IF d.start > d.end
        THEN [err |-> StartGreaterError(d), fit |-> d, rest |-> d, more |-> FALSE]
        ELSE IF d.end + 1 <= e * a
        THEN [err |-> NoError, fit |-> d, rest |-> d, more |-> FALSE]
        ELSE [err |-> NoError,
              fit |-> Block(d.start, e * a - 1, d.label),
              rest |-> Block(e * a, d.end, ""),
              more |-> TRUE]

\* getNextFittingBlock that leaves an end that was not given undefined
getNextFittingBlockNoDefault(t, e, a) ==
    IF t.end = NoEnd
    THEN [err |-> NoError, fit |-> t, rest |-> t, more |-> FALSE]
    ELSE IF t.start > t.end
    THEN [err |-> StartGreaterError(t), fit |-> t, rest |-> t, more |-> FALSE]
    ELSE IF t.end + 1 <= e * a
    THEN [err |-> NoError, fit |-> t, rest |-> t, more |-> FALSE]
    ELSE [err |-> NoError,
          fit |-> Block(t.start, e * a - 1, t.label),
          rest |-> Block(e * a, t.end, t.label),
          more |-> TRUE]

\* getNextFittingBlock that splits a block ending on the last bit of the row
getNextFittingBlockStrict(t, e, a) ==
    LET d == IF t.end = NoEnd THEN [t EXCEPT !.end = t.start] ELSE t
    IN  IF d.start > d.end
        THEN [err |-> StartGreaterError(d), fit |-> d, rest |-> d, more |-> FALSE]
        ELSE IF d.end + 1 < e * a
        THEN [err |-> NoError, fit |-> d, rest |-> d, more |-> FALSE]
        ELSE [err |-> NoError,
              fit |-> Block(d.start, e * a - 1, d.label),
              rest |-> Block(e * a, d.end, d.label),
              more |-> TRUE]

getNextFittingBlock(t, e, a) ==
    LET d == IF t.end = NoEnd THEN [t EXCEPT !.end = t.start] ELSE t
    IN  IF d.start > d.end
        THEN [err |-> StartGreaterError(d), fit |-> d, rest |-> d, more |-> FALSE]
        ELSE IF d.end + 1 <= e * a
        THEN [err |-> NoError, fit |-> d, rest |-> d, more |-> FALSE]
        ELSE [err |-> NoError,
              fit |-> Block(d.start, e * a - 1, d.label),
              rest |-> Block(e * a, d.end, d.label),
              more |-> TRUE]

\* pushWord that puts the row in front of the others
pushWordFront(store, word) == IF Len(word) > 0 THEN <<word>> \o store ELSE store

\* pushWord that pushes an empty row too
pushWordAlways(store, word) == Append(store, word)

\* pushWord: t.length > 0 && s.packet.push(t)
pushWord(store, word) == IF Len(word) > 0 THEN Append(store, word) ELSE store


(***************************************************************************)
(* populate(t), one step of its loops at a time.  The record st holds the  *)
(* locals of one call: e (lastByte), a (word), l (row), o (bitsPerRow),    *)
(* the destructured r, c, n (start, end, label), the position in t.blocks, *)
(* and the store s.packet it pushes to.                                    *)
(*   pc = "for"    at the head of the for-of loop over t.blocks            *)
(*   pc = "while"  at the condition of the inner loop                      *)
(*   pc = "done"   returned, after the final pushWord(a)                   *)
(*   pc = "threw"  an Error left the call                                  *)
(***************************************************************************)
\* populate with e = 0 at the start: the first block expected at 1
populateInitFromOne(blocks, store, o) ==
    [pc |-> "for", blocks |-> blocks, i |-> 1,
     lastByte |-> 0, word |-> <<>>, row |-> 1, bitsPerRow |-> o,
     start |-> 0, end |-> NoEnd, label |-> "",
     packet |-> store, err |-> NoError]

\* let e = -1, a = [], l = 1, {bitsPerRow: o} = b.getConfig()
populateInit(blocks, store, o) ==
    [pc |-> "for", blocks |-> blocks, i |-> 1,
     lastByte |-> -1, word |-> <<>>, row |-> 1, bitsPerRow |-> o,
     start |-> 0, end |-> NoEnd, label |-> "",
     packet |-> store, err |-> NoError]

\* c && c < r: the end is given, is not 0, and is less than the start
invalidRange(r, c) == c # NoEnd /\ c # 0 /\ c < r

\* the contiguity check, finding overlaps only
notContiguousOverlapOnly(r, e) == r < e + 1

\* r !== e + 1
notContiguous(r, e) == r # e + 1

\* throw, after pushing the unfinished row
throwFlushing(st, err) ==
    [st EXCEPT !.pc = "threw", !.err = err, !.packet = pushWord(st.packet, st.word)]

\* the throw emptying the store
throwClearing(st, err) ==
    [st EXCEPT !.pc = "threw", !.err = err, !.packet = <<>>]

\* throw Error(...): the call ends, the locals are gone, the store stays as it is
throw(st, err) == [st EXCEPT !.pc = "threw", !.err = err]

\* e = c: the end as it was given, also when it was not given
lastByteNoDefault(r, c) == c

\* e = c ?? r: the end of the block, its start when no end was given
lastByteOf(r, c) == IF c = NoEnd THEN r ELSE c

\* the head of the for-of loop: the two checks, then e = c ?? r
populateFor(st) ==
    IF st.i > Len(st.blocks)
    THEN [st EXCEPT !.pc = "done", !.packet = pushWord(st.packet, st.word)]
    ELSE LET b == st.blocks[st.i]
         IN  IF invalidRange(b.start, b.end)
             THEN throw(st, InvalidError(b.start, b.end))
             ELSE IF notContiguous(b.start, st.lastByte)
             THEN throw(st, NotContiguousError(b.start, EndOf(b), st.lastByte))
             ELSE [st EXCEPT !.pc = "while", !.i = st.i + 1,
                             !.start = b.start, !.end = b.end, !.label = b.label,
                             !.lastByte = lastByteOf(b.start, b.end)]

\* the guard of the inner loop, letting one Word more through
populateGuardOneMore(st) ==
    Len(st.word) <= st.bitsPerRow + 1 /\ Len(st.packet) <= MaxPacketSize

\* the guard of the inner loop with a.length < o + 1
populateGuardShortRow(st) ==
    Len(st.word) < st.bitsPerRow + 1 /\ Len(st.packet) < MaxPacketSize

\* the guard of the inner loop without the ceiling
populateGuardRowOnly(st) == Len(st.word) <= st.bitsPerRow + 1

\* a.length <= o + 1 && b.getPacket().length < 1e4
populateGuard(st) ==
    Len(st.word) <= st.bitsPerRow + 1 /\ Len(st.packet) < MaxPacketSize

\* the row taken as complete one bit early
rowCompleteEarly(t, l, o) == t.end + 2 = l * o

\* the row taken as complete one bit late
rowCompleteLate(t, l, o) == t.end = l * o

\* the row never taken as complete
rowCompleteNever(t, l, o) == FALSE

\* t.end + 1 === l * o: the row is complete
rowComplete(t, l, o) == t.end + 1 = l * o

\* the row index left as it is
nextRowStays(l) == l

\* the row index raised by two
nextRowSkips(l) == l + 2

\* l++
nextRow(l) == l + 1

\* the loop condition found false, reported as an error
loopExitThrows(st) ==
    throw(st, [kind |-> "ceiling", start |-> st.start, end |-> st.end, expected |-> 0])

\* the loop condition found false: on to the next block of the for-of loop
loopExit(st) == [st EXCEPT !.pc = "for"]

\* void 0 === t.end && (t.end = t.start), on the object getNextFittingBlock
\* is given
withEnd(t) == IF t.end = NoEnd THEN [t EXCEPT !.end = t.start] ELSE t

\* getNextFittingBlock handed the block of t.blocks itself: its end is set
blocksAfterSplitShared(st) ==
    [st.blocks EXCEPT ![st.i - 1] =
        IF st.start = @.start /\ st.end = @.end THEN withEnd(@) ELSE @]

\* t.blocks after u({start: r, end: c, label: n}, l, o): the argument is a
\* new object made of the three locals, no block of t.blocks is written
blocksAfterSplit(st) == st.blocks

\* one turn of the inner loop
populateWhile(st) ==
    IF ~populateGuard(st)
    THEN loopExit(st)
    ELSE LET r == getNextFittingBlock(Block(st.start, st.end, st.label),
                                      st.row, st.bitsPerRow)
             a == Append(st.word, r.fit)
             full == rowComplete(r.fit, st.row, st.bitsPerRow)
         IN  IF r.err # NoError
             THEN throw(st, r.err)
             ELSE [st EXCEPT
                     !.word = IF full THEN <<>> ELSE a,
                     !.packet = IF full THEN pushWord(st.packet, a) ELSE st.packet,
                     !.row = IF full THEN nextRow(st.row) ELSE st.row,
                     !.blocks = blocksAfterSplit(st),
                     !.pc = IF r.more THEN "while" ELSE "for",
                     !.start = IF r.more THEN r.rest.start ELSE st.start,
                     !.end = IF r.more THEN r.rest.end ELSE st.end,
                     !.label = IF r.more THEN r.rest.label ELSE st.label]

populateEnded(st) == st.pc \in {"done", "threw"}

populateStep(st) ==
    IF st.pc = "for" THEN populateFor(st)
    ELSE IF st.pc = "while" THEN populateWhile(st)
    ELSE st

\* up to 2^k steps, stopping when the call has ended
RECURSIVE populateRun(_, _)
populateRun(st, k) ==
    IF populateEnded(st) THEN st
    ELSE IF k = 0 THEN populateStep(st)
    ELSE populateRun(populateRun(st, k - 1), k - 1)

\* up to 2^k steps within one block: stopping at the head of the for-of loop
RECURSIVE populateRunBlock(_, _)
populateRunBlock(st, k) ==
    IF populateEnded(st) \/ st.pc = "for" THEN st
    ELSE IF k = 0 THEN populateStep(st)
    ELSE populateRunBlock(populateRunBlock(st, k - 1), k - 1)

\* populate with an await in its for-of loop: the call is suspended after
\* each block
runToNextBlock(st) ==
    IF populateEnded(st) THEN st ELSE populateRunBlock(populateStep(st), RunDepth)

\* populate is a synchronous function with no await in it: once entered it
\* runs to its return or its throw before any other callback runs
runToSuspension(st) == populateRun(st, RunDepth)

\* the whole call
populate(blocks, store, o) == populateRun(populateInit(blocks, store, o), RunDepth)

(***************************************************************************)
(* The diagrams populate is given.                                         *)
(*                                                                         *)
(* populate reads a block only after it has accepted every block before    *)
(* it, so the small diagrams are: the well-formed contiguous block lists   *)
(* over the bits 0..MaxBit, and each of them followed by one arbitrary     *)
(* block.  A well-formed list writes its one-bit blocks all without an end *)
(* or all with one.  The block at position i is labelled LabelOf(i).       *)
(***************************************************************************)
\* the expected start after the blocks of p
NextStart(p) == IF Len(p) = 0 THEN 0 ELSE EndOf(p[Len(p)]) + 1

\* p followed by one more well-formed contiguous block, in every way; bare:
\* a one-bit block is written without its end
Extend(p, bare) ==
    LET s == NextStart(p)
    IN  {Append(p, Block(s, IF bare /\ e = s THEN NoEnd ELSE e, LabelOf(Len(p) + 1))) :
            e \in s..MaxBit}

RECURSIVE ValidUpTo(_, _)
ValidUpTo(k, bare) ==
    IF k = 0 THEN {<<>>}
    ELSE LET prev == ValidUpTo(k - 1, bare)
         IN  prev \cup UNION {Extend(p, bare) : p \in prev}

ValidDiagrams == ValidUpTo(MaxBit + 1, TRUE) \cup ValidUpTo(MaxBit + 1, FALSE)

AnyBlocks(l) ==
    {Block(s, e, l) : s \in 0..(MaxBit + 1), e \in {NoEnd} \cup 0..(MaxBit + 1)}

SmallDiagrams ==
    ValidDiagrams \cup
    UNION {{Append(p, b) : b \in AnyBlocks(LabelOf(Len(p) + 1))} : p \in ValidDiagrams}

\* n blocks of w bits each, from bit 0
Uniform(n, w) ==
    [i \in 1..n |-> Block((i - 1) * w, i * w - 1, LabelOf(i))]

\* the diagrams at the ceiling: for each row width b the user may set, one
\* block of exactly MaxPacketSize rows and one of a bit more; and
\* MaxPacketSize + 2 one-bit blocks
LargeDiagrams ==
    {Uniform(1, MaxPacketSize * b + x) : b \in 1..MaxUserBitsPerRow, x \in {0, 1}}
    \cup {Uniform(MaxPacketSize + 2, 1)}

Diagrams == SmallDiagrams \cup LargeDiagrams

(***************************************************************************)
(* The configuration.  The user's packet options give a key or leave it    *)
(* out: <<v>> is a key given with value v, <<>> a key left out.            *)
(***************************************************************************)
Absent == <<>>

Given(v) == <<v>>

\* i.vZ.packet, the defaults of the bundled library
DefaultConfig ==
    [bitsPerRow |-> DefaultBitsPerRow, bitWidth |-> DefaultBitWidth,
     rowHeight |-> DefaultRowHeight, paddingX |-> DefaultPaddingX,
     paddingY |-> DefaultPaddingY, showBits |-> TRUE]

\* {...d, ...(0,i.iE)().packet}
Merge(d, u) ==
    [k \in DOMAIN d |-> IF u[k] # Absent THEN u[k][1] ELSE d[k]]

\* getConfig merging the user's options into the defaults object itself
\* and adding to its paddingY
getConfigInPlace(d, u) ==
    LET m == Merge(d, u)
        t == IF m.showBits THEN [m EXCEPT !.paddingY = m.paddingY + ShowBitsPadding] ELSE m
    IN  [value |-> t, defaults |-> t]

\* getConfig with d the defaults object and u the user's options:
\* t = cleanAndMerge({...d, ...u}) is an object of its own, so
\* t.showBits && (t.paddingY += 10) leaves d as it is.  value is the
\* object returned, defaults is d after the call.
getConfigOf(d, u) ==
    LET m == Merge(d, u)
        t == IF m.showBits THEN [m EXCEPT !.paddingY = m.paddingY + ShowBitsPadding] ELSE m
    IN  [value |-> t, defaults |-> d]

\* the options of the renders: bitsPerRow only
UserConfigs ==
    [bitsPerRow : {Absent} \cup {Given(b) : b \in 1..MaxUserBitsPerRow},
     bitWidth : {Absent}, rowHeight : {Absent}, paddingX : {Absent},
     paddingY : {Absent}, showBits : {Absent}]

\* the options getConfig is called with on its own
ConfigOptions ==
    [bitsPerRow : {Absent, Given(MaxUserBitsPerRow)},
     bitWidth : {Absent}, rowHeight : {Absent},
     paddingX : {Absent, Given(0)},
     paddingY : {Absent} \cup {Given(p) : p \in 0..MaxUserPaddingY},
     showBits : {Absent, Given(TRUE), Given(FALSE)}]

(***************************************************************************)
(* The state: the module-level variables of the chunk, and a record of     *)
(* the last call made on the db.                                           *)
(***************************************************************************)
VARIABLES
    template,    \* n.packet, the empty store the chunk clones
    packet,      \* s.packet, the Words of the store
    aliased,     \* whether s and n are the same object
    userConfig,  \* the user's packet options, (0,i.iE)().packet
    last,        \* the last call: its name, argument, the store before it, its error
    firstRun,    \* a session's first populate into a fresh store: input and result
    split,       \* the last call of getNextFittingBlock populate made
    defaults,    \* d, the object i.vZ.packet
    configs,     \* what getConfig returned, call by call, under the present options
    drawn,       \* <<what draw appended to the svg>> when the last call was draw
    parses,      \* the parse calls made, in the order made: diagram and position
    owners,      \* for each Word of the store, the parse call that pushed it
    call         \* a populate call followed step by step: its locals, now and a step ago

vars == <<template, packet, aliased, userConfig, last, firstRun, split,
          defaults, configs, drawn, parses, owners, call>>

\* what the calls on the db leave alone
aside == <<split, configs, drawn, parses, owners, call>>

getConfig == getConfigOf(defaults, userConfig).value

getPacket == packet

\* s = n: the store and the template are one object
sameObject(v) == [value |-> v, aliased |-> TRUE]

\* structuredClone(n): a deep copy, an object of its own
structuredClone(v) == [value |-> v, aliased |-> FALSE]

\* clear that resets the common db only and keeps s
storeKept(tmpl) == [value |-> packet, aliased |-> aliased]

\* s = structuredClone(n) in clear
clearedStore(tmpl) == structuredClone(tmpl)

\* fresh: the call was made right after clear() or the loading of the chunk
Call(op, blocks, before, err, fresh) ==
    [op |-> op, input |-> blocks, base |-> before, err |-> err, fresh |-> fresh]

NoRun ==
    [made |-> FALSE, again |-> FALSE, input |-> <<>>,
     words |-> <<>>, err |-> NoError]

\* ast: the blocks populate was given; base: the store when it was entered;
\* turns: the turns of the inner loop taken for the block at hand
NoCall ==
    [active |-> FALSE, ast |-> <<>>, base |-> <<>>, turns |-> 0,
     st |-> populateInit(<<>>, <<>>, 1), prev |-> populateInit(<<>>, <<>>, 1)]

NoSplit ==
    [called |-> FALSE, block |-> Block(0, NoEnd, ""), row |-> 1, bitsPerRow |-> 1,
     result |-> getNextFittingBlock(Block(0, NoEnd, ""), 1, 1)]

\* var n = {packet: []}, s = structuredClone(n), d = i.vZ.packet
Loaded ==
    /\ template = <<>>
    /\ packet = structuredClone(template).value
    /\ aliased = structuredClone(template).aliased
    /\ defaults = DefaultConfig
    /\ last = Call("init", <<>>, <<>>, NoError, FALSE)
    /\ firstRun = NoRun
    /\ split = NoSplit
    /\ configs = <<>>
    /\ drawn = <<>>
    /\ parses = <<>>
    /\ owners = <<>>
    /\ call = NoCall

Init == Loaded /\ userConfig \in UserConfigs

\* populate(t) with t.blocks = blocks
Populate(blocks) ==
    LET st == populate(blocks, getPacket, getConfig.bitsPerRow)
    IN  /\ populateEnded(st)
        /\ packet' = st.packet
        /\ template' = IF aliased THEN st.packet ELSE template
        /\ last' = Call("populate", blocks, packet, st.err, last.op \in {"init", "clear"})
        /\ defaults' = getConfigOf(defaults, userConfig).defaults
        /\ UNCHANGED <<aliased, userConfig>>

\* db.pushWord(word), called from outside populate
PushWord(word) ==
    /\ packet' = pushWord(packet, word)
    /\ template' = IF aliased THEN packet' ELSE template
    /\ last' = Call("pushWord", <<>>, packet, NoError, FALSE)
    /\ UNCHANGED <<aliased, userConfig, defaults>>

\* clear: s = structuredClone(n)
Clear ==
    /\ packet' = clearedStore(template).value
    /\ aliased' = clearedStore(template).aliased
    /\ last' = Call("clear", <<>>, <<>>, NoError, FALSE)
    /\ UNCHANGED <<template, userConfig, defaults>>

\* db.getPacket(), called on its own: returns s.packet
GetPacket ==
    /\ last' = Call("getPacket", getPacket, packet, NoError, FALSE)
    /\ UNCHANGED <<template, packet, aliased, userConfig, defaults>>

\* drawWord with x taken from the bit's number in the packet, not in its row
drawWordAbsolute(word, row, c) ==
    LET d == row * (c.rowHeight + c.paddingY) + c.paddingY
    IN  [j \in 1..Len(word) |->
           LET t == word[j]
               e == t.start * c.bitWidth + 1
               a == (t.end - t.start + 1) * c.bitWidth - c.paddingX
           IN  [rect |-> [x |-> e, y |-> d, width |-> a, height |-> c.rowHeight],
                label |-> [x2 |-> 2 * e + a, y2 |-> 2 * d + c.rowHeight, text |-> t.label],
                bits |-> <<>>]]

\* drawWord with the first row at index 1
drawWordFromOne(word, row, c) ==
    LET d == (row + 1) * (c.rowHeight + c.paddingY) + c.paddingY
    IN  [j \in 1..Len(word) |->
           LET t == word[j]
               e == (t.start % c.bitsPerRow) * c.bitWidth + 1
               a == (t.end - t.start + 1) * c.bitWidth - c.paddingX
           IN  [rect |-> [x |-> e, y |-> d, width |-> a, height |-> c.rowHeight],
                label |-> [x2 |-> 2 * e + a, y2 |-> 2 * d + c.rowHeight, text |-> t.label],
                bits |-> <<>>]]

\* drawWord(t, e, a, config): the elements appended to the group of the
\* Word e at index a (row), one record per sub-block.  A coordinate that
\* the code halves is kept doubled: x2 is twice x, y2 twice y.
\*   d = a*(r+o)+o;  e = t.start%c*i+1;  a = (t.end-t.start+1)*i-l
\*   rect at (e, d) of width a and height r; the label at (e+a/2, d+r/2);
\*   with showBits the start at (e+(o?a/2:0), d-2), o being end === start,
\*   and unless o the end at (e+a, d-2)
drawWord(word, row, c) ==
    LET d == row * (c.rowHeight + c.paddingY) + c.paddingY
    IN  [j \in 1..Len(word) |->
           LET t == word[j]
               e == (t.start % c.bitsPerRow) * c.bitWidth + 1
               a == (t.end - t.start + 1) * c.bitWidth - c.paddingX
               o == t.end = t.start
               p == d - 2
           IN  [rect |-> [x |-> e, y |-> d, width |-> a, height |-> c.rowHeight],
                label |-> [x2 |-> 2 * e + a, y2 |-> 2 * d + c.rowHeight, text |-> t.label],
                bits |-> IF ~c.showBits THEN <<>>
                         ELSE IF o
                         THEN <<[class |-> "start", x2 |-> 2 * e + a, y |-> p,
                                 anchor |-> "middle", text |-> t.start]>>
                         ELSE <<[class |-> "start", x2 |-> 2 * e, y |-> p,
                                 anchor |-> "start", text |-> t.start],
                                [class |-> "end", x2 |-> 2 * (e + a), y |-> p,
                                 anchor |-> "end", text |-> t.end]>>]]

\* draw: g = n+s, u = g*(k.length+1) - (b ? 0 : n), f = d*p+2; the viewbox
\* "0 0 f u", one group per Word k[r] with its index r - 1, and the title b
\* at (f/2, u - g/2)
draw(k, c, b) ==
    LET g == c.rowHeight + c.paddingY
        u == g * (Len(k) + 1) - (IF b # "" THEN 0 ELSE c.rowHeight)
        f == c.bitWidth * c.bitsPerRow + 2
    IN  [viewbox |-> [width |-> f, height |-> u],
         groups |-> [r \in 1..Len(k) |-> drawWord(k[r], r - 1, c)],
         title |-> [x2 |-> f, y2 |-> 2 * u - g, text |-> b]]

\* the diagram title draw reads from the common db
Titles == {"", "Packet"}

\* renderer.draw(text, id, version, diagObj)
Draw ==
    \E b \in Titles :
        /\ drawn' = <<draw(getPacket, getConfigOf(defaults, userConfig).value, b)>>
        /\ defaults' = getConfigOf(defaults, userConfig).defaults
        /\ last' = Call("draw", <<>>, packet, NoError, FALSE)
        /\ UNCHANGED <<template, packet, aliased, userConfig>>

\* db.getConfig(), called on its own
GetConfig ==
    /\ configs' = Append(configs, getConfigOf(defaults, userConfig).value)
    /\ defaults' = getConfigOf(defaults, userConfig).defaults
    /\ last' = Call("getConfig", <<>>, packet, NoError, FALSE)
    /\ UNCHANGED <<template, packet, aliased, userConfig>>

(***************************************************************************)
(* Spec: one render after another, each a clear and then the populate of   *)
(* one diagram, small or large.                                            *)
(***************************************************************************)
Render ==
    \E blocks \in Diagrams :
        /\ last.op = "clear"
        /\ Populate(blocks)
        /\ UNCHANGED <<firstRun, aside>>

Reset == Clear /\ UNCHANGED <<firstRun, aside>>

Next == Render \/ Reset

Spec == Init /\ [][Next]_vars

(***************************************************************************)
(* SpecSession: any order of populate, pushWord and clear on the one       *)
(* store, over a few diagrams, while the store holds fewer than            *)
(* MaxSessionWords Words; the user's options stay as they are.  firstRun   *)
(* keeps the first populate that was made into a fresh store, and whether  *)
(* the same diagram was populated again right after a clear.               *)
(***************************************************************************)
SessionDiagrams ==
    { <<>>,
      <<Block(0, NoEnd, "A")>>,
      <<Block(0, 3, "A")>>,
      <<Block(0, 0, "A"), Block(1, 2, "B")>>,
      <<Block(0, 1, "A"), Block(3, 3, "B")>>,
      <<Block(0, 2, "A"), Block(3, 1, "B")>>,
      <<Block(0, 1, "A"), Block(2, 0, "B")>>,
      <<Block(1, 2, "A")>>,
      <<Block(2, NoEnd, "A")>>,
      <<Block(2, 1, "A")>> }

SessionWords == {<<>>, <<Block(0, 0, "W")>>}

SessionPopulate ==
    \E blocks \in SessionDiagrams :
        /\ Len(packet) < MaxSessionWords
        /\ Populate(blocks)
        /\ firstRun' =
              IF ~firstRun.made /\ last.op \in {"init", "clear"}
              THEN [made |-> TRUE, again |-> FALSE, input |-> blocks,
                    words |-> packet', err |-> last'.err]
              ELSE IF firstRun.made /\ last.op = "clear" /\ blocks = firstRun.input
              THEN [firstRun EXCEPT !.again = TRUE]
              ELSE firstRun
        /\ UNCHANGED aside

SessionPushWord ==
    \E word \in SessionWords :
        /\ Len(packet) < MaxSessionWords
        /\ PushWord(word)
        /\ UNCHANGED <<firstRun, aside>>

SessionClear == Clear /\ UNCHANGED <<firstRun, aside>>

NextSession == SessionPopulate \/ SessionPushWord \/ SessionClear

SpecSession == Init /\ [][NextSession]_vars

(***************************************************************************)
(* SpecSplit: the calls of getNextFittingBlock.  populate is its only      *)
(* caller, once in every turn of its inner loop, so populate is followed   *)
(* one step of its loops at a time and split keeps the arguments and the   *)
(* result of the last call it made.  bitsPerRow is the default or what the *)
(* user set, from -MaxNonPositive to MaxUserBitsPerRow; a populate call is *)
(* followed until it has pushed MaxSplitWords Words.                       *)
(***************************************************************************)
SplitConfigs ==
    [bitsPerRow : {Absent} \cup
                  {Given(b) : b \in (0 - MaxNonPositive)..MaxUserBitsPerRow},
     bitWidth : {Absent}, rowHeight : {Absent}, paddingX : {Absent},
     paddingY : {Absent}, showBits : {Absent}]

SplitDiagrams ==
    { <<Block(0, NoEnd, "A")>>,
      <<Block(0, 1, "A"), Block(2, 6, "B")>>,
      <<Block(0, 1, "A"), Block(2, 0, "B")>>,
      <<Block(0, 2, "A"), Block(3, NoEnd, "B"), Block(4, 5, "C")>> }

InitSplit == Loaded /\ userConfig \in SplitConfigs

\* populate(t) entered: let e = -1, a = [], l = 1, {bitsPerRow: o} = b.getConfig()
SplitEnter ==
    \E blocks \in SplitDiagrams :
        /\ ~call.active /\ Len(packet) < MaxStepWords
        /\ call' = [active |-> TRUE, ast |-> blocks, base |-> packet, turns |-> 0,
                    st |-> populateInit(blocks, getPacket, getConfig.bitsPerRow),
                    prev |-> populateInit(blocks, getPacket, getConfig.bitsPerRow)]
        /\ defaults' = getConfigOf(defaults, userConfig).defaults
        /\ UNCHANGED <<template, packet, aliased, userConfig, last, firstRun,
                       split, configs, drawn, parses, owners>>

\* one step of the loops of the call; a turn of the inner loop is
\* let [t, e] = u({start: r, end: c, label: n}, l, o) and what follows it
SplitTake ==
    /\ call.active /\ ~populateEnded(call.st)
    /\ Len(packet) < Len(call.base) + MaxSplitWords
    /\ call' = [call EXCEPT
                   !.prev = call.st,
                   !.st = populateStep(call.st),
                   !.turns = IF call.st.pc = "for" THEN 0
                             ELSE IF populateGuard(call.st) THEN @ + 1 ELSE @]
    /\ split' =
          IF call.st.pc = "while" /\ populateGuard(call.st)
          THEN LET t == Block(call.st.start, call.st.end, call.st.label)
               IN  [called |-> TRUE, block |-> t, row |-> call.st.row,
                    bitsPerRow |-> call.st.bitsPerRow,
                    result |-> getNextFittingBlock(t, call.st.row,
                                                   call.st.bitsPerRow)]
          ELSE split
    /\ packet' = populateStep(call.st).packet
    /\ template' = IF aliased THEN packet' ELSE template
    /\ UNCHANGED <<aliased, userConfig, last, firstRun, defaults, configs,
                   drawn, parses, owners>>

\* the call returns or its Error reaches the caller
SplitLeave ==
    /\ call.active /\ populateEnded(call.st)
    /\ call' = [call EXCEPT !.active = FALSE]
    /\ last' = Call("populate", call.ast, call.base, call.st.err,
                    last.op \in {"init", "clear"})
    /\ UNCHANGED <<template, packet, aliased, userConfig, firstRun, split, defaults,
                   configs, drawn, parses, owners>>

SplitClear ==
    /\ ~call.active /\ packet # <<>>
    /\ Clear
    /\ call' = NoCall
    /\ UNCHANGED <<firstRun, split, configs, drawn, parses, owners>>

NextSplit == SplitEnter \/ SplitTake \/ SplitLeave \/ SplitClear

SpecSplit == InitSplit /\ [][NextSplit]_vars

(***************************************************************************)
(* SpecConfig: getConfig called again and again, and the user's options    *)
(* changed in between, over the options ConfigOptions.                     *)
(***************************************************************************)
InitConfig == Loaded /\ userConfig \in ConfigOptions

ConfigGet ==
    /\ Len(configs) < MaxConfigCalls
    /\ GetConfig
    /\ UNCHANGED <<firstRun, call, split, drawn, parses, owners>>

\* the options (0,i.iE)().packet become others
ConfigSet ==
    \E u \in ConfigOptions :
        /\ u # userConfig
        /\ userConfig' = u
        /\ configs' = <<>>
        /\ UNCHANGED <<template, packet, aliased, last, firstRun, call, split, defaults,
                       drawn, parses, owners>>

NextConfig == ConfigGet \/ ConfigSet

SpecConfig == InitConfig /\ [][NextConfig]_vars

(***************************************************************************)
(* SpecDraw: populate, draw, getConfig, getPacket and clear in any order   *)
(* on the one store, over a few diagrams and the options DrawOptions,      *)
(* populate being called while the store holds fewer than MaxDrawWords     *)
(* Words.                                                                  *)
(***************************************************************************)
DrawOptions ==
    [bitsPerRow : {Absent, Given(MaxUserBitsPerRow)},
     bitWidth : {Absent, Given(1)}, rowHeight : {Absent},
     paddingX : {Absent, Given(0)},
     paddingY : {Absent},
     showBits : {Absent, Given(FALSE)}]

DrawDiagrams ==
    { <<Block(0, NoEnd, "A")>>,
      <<Block(0, 0, "A"), Block(1, 4, "B")>>,
      <<Block(0, 1, "A"), Block(2, 2, "B"), Block(4, 4, "C")>>,
      <<Block(0, 2, "A"), Block(4, 4, "B")>> }

InitDraw == Loaded /\ userConfig \in DrawOptions

DrawPopulate ==
    \E blocks \in DrawDiagrams :
        /\ Len(packet) < MaxDrawWords
        /\ Populate(blocks)
        /\ drawn' = <<>>
        /\ UNCHANGED <<firstRun, call, split, configs, parses, owners>>

DrawDraw == Draw /\ UNCHANGED <<firstRun, call, split, configs, parses, owners>>

DrawGetConfig ==
    /\ Len(configs) < MaxConfigCalls
    /\ GetConfig
    /\ drawn' = <<>>
    /\ UNCHANGED <<firstRun, call, split, parses, owners>>

DrawGetPacket ==
    /\ GetPacket
    /\ drawn' = <<>>
    /\ UNCHANGED <<firstRun, call, split, configs, parses, owners>>

DrawClear ==
    /\ Clear
    /\ drawn' = <<>>
    /\ UNCHANGED <<firstRun, call, split, configs, parses, owners>>

NextDraw == DrawPopulate \/ DrawDraw \/ DrawGetConfig \/ DrawGetPacket \/ DrawClear

SpecDraw == InitDraw /\ [][NextDraw]_vars

(***************************************************************************)
(* SpecParse: up to MaxParses calls of parser.parse on the one store,      *)
(* several of them in flight at a time, and clear in between.  A parse     *)
(* call awaits the parser and then calls populate on what it returned; the *)
(* awaits of the calls in flight resolve in any order.  The parser is      *)
(* another chunk: a text is given by the blocks it parses to.              *)
(*   pc = "await"      at  await Qc("packet", t)                           *)
(*   pc = "suspended"  inside populate, at a suspension point              *)
(*   pc = "done"       populate returned                                   *)
(*   pc = "threw"      populate threw, the promise is rejected             *)
(***************************************************************************)
ParseDiagrams ==
    { <<Block(0, NoEnd, "A")>>,
      <<Block(0, 1, "A"), Block(2, 4, "B")>>,
      <<Block(0, 2, "A"), Block(3, 3, "B"), Block(5, 5, "C")>> }

\* parse(t), up to its await
ParseCall ==
    \E blocks \in ParseDiagrams :
        /\ Len(parses) < MaxParses
        /\ parses' = Append(parses, [blocks |-> blocks, pc |-> "await", run |-> <<>>])
        /\ UNCHANGED <<template, packet, aliased, userConfig, last, firstRun, call, split,
                       defaults, configs, drawn, owners>>

\* the awaited parser result arrives and parse goes on: g(e), as far as
\* populate runs without suspending; or a suspended populate goes on
ParseResume ==
    \E i \in 1..Len(parses) :
        /\ parses[i].pc \in {"await", "suspended"}
        /\ LET st0 == IF parses[i].pc = "await"
                      THEN populateInit(parses[i].blocks, getPacket, getConfig.bitsPerRow)
                      ELSE [parses[i].run[1] EXCEPT !.packet = getPacket]
               st1 == runToSuspension(st0)
           IN  /\ packet' = st1.packet
               /\ owners' = owners \o [k \in 1..(Len(st1.packet) - Len(packet)) |-> i]
               /\ parses' = [parses EXCEPT ![i] =
                     [blocks |-> parses[i].blocks,
                      pc |-> IF populateEnded(st1) THEN
                                (IF st1.pc = "done" THEN "done" ELSE "threw")
                             ELSE "suspended",
                      run |-> IF populateEnded(st1) THEN <<>> ELSE <<st1>>]]
               /\ template' = IF aliased THEN st1.packet ELSE template
               /\ last' = Call("populate", parses[i].blocks, packet, st1.err,
                               last.op \in {"init", "clear"})
        /\ defaults' = getConfigOf(defaults, userConfig).defaults
        /\ UNCHANGED <<aliased, userConfig, firstRun, call, split, configs, drawn>>

ParseClear ==
    /\ packet # <<>>
    /\ Clear
    /\ owners' = <<>>
    /\ UNCHANGED <<firstRun, call, split, configs, drawn, parses>>

NextParse == ParseCall \/ ParseResume \/ ParseClear

SpecParse == Init /\ [][NextParse]_vars

(***************************************************************************)
(* SpecSteps: populate calls followed step by step, one after the other,   *)
(* and clear.  A first populate of one long block may fill the store up to *)
(* the ceiling or to one Word below it, so that the calls that follow      *)
(* reach it.                                                               *)
(***************************************************************************)
FillRows == {MaxPacketSize - 1, MaxPacketSize}
StepDiagrams ==
    { <<>>,
      <<Block(0, 0, "A")>>,
      <<Block(0, 0, "A"), Block(1, 0, "B")>>,
      <<Block(0, NoEnd, "A"), Block(1, 4, "B")>>,
      <<Block(0, 1, "A"), Block(2, NoEnd, "B"), Block(3, 5, "C")>>,
      <<Block(0, 2, "A"), Block(4, 4, "B")>>,
      <<Block(0, 1, "A"), Block(2, 0, "B"), Block(1, 1, "C")>>,
      <<Block(0, 3, "A"), Block(4, 2, "B")>> }

\* populate of one block of n full rows, in one step
StepFill ==
    \E n \in FillRows :
        /\ last.op = "init" /\ ~call.active /\ packet = <<>>
        /\ Populate(Uniform(1, n * getConfig.bitsPerRow))
        /\ UNCHANGED <<firstRun, aside>>

\* populate(t) entered: let e = -1, a = [], l = 1, {bitsPerRow: o} = b.getConfig()
StepEnter ==
    \E blocks \in StepDiagrams :
        /\ ~call.active
        /\ Len(packet) < MaxStepWords \/ Len(packet) >= MaxPacketSize - 1
        /\ call' = [active |-> TRUE, ast |-> blocks, base |-> packet, turns |-> 0,
                    st |-> populateInit(blocks, getPacket, getConfig.bitsPerRow),
                    prev |-> populateInit(blocks, getPacket, getConfig.bitsPerRow)]
        /\ defaults' = getConfigOf(defaults, userConfig).defaults
        /\ UNCHANGED <<template, packet, aliased, userConfig, last, firstRun,
                       split, configs, drawn, parses, owners>>

\* one step of the loops of the call
StepTake ==
    /\ call.active /\ ~populateEnded(call.st)
    /\ call' = [call EXCEPT
                   !.prev = call.st,
                   !.st = populateStep(call.st),
                   !.turns = IF call.st.pc = "for" THEN 0
                             ELSE IF populateGuard(call.st) THEN @ + 1 ELSE @]
    /\ packet' = populateStep(call.st).packet
    /\ template' = IF aliased THEN packet' ELSE template
    /\ UNCHANGED <<aliased, userConfig, last, firstRun, split, defaults, configs,
                   drawn, parses, owners>>

\* the call returns or its Error reaches the caller
StepLeave ==
    /\ call.active /\ populateEnded(call.st)
    /\ call' = [call EXCEPT !.active = FALSE]
    /\ last' = Call("populate", call.ast, call.base, call.st.err,
                    last.op \in {"init", "clear"})
    /\ UNCHANGED <<template, packet, aliased, userConfig, firstRun, split, defaults,
                   configs, drawn, parses, owners>>

StepClear ==
    /\ ~call.active /\ packet # <<>>
    /\ Clear
    /\ call' = NoCall
    /\ UNCHANGED <<firstRun, split, configs, drawn, parses, owners>>

\* pushWord called from outside populate, with an empty or a one-bit row
StepPushWord ==
    \E word \in SessionWords :
        /\ ~call.active /\ Len(packet) < MaxStepWords
        /\ PushWord(word)
        /\ call' = NoCall
        /\ UNCHANGED <<firstRun, split, configs, drawn, parses, owners>>

NextSteps ==
    StepFill \/ StepEnter \/ StepTake \/ StepLeave \/ StepClear \/ StepPushWord

SpecSteps == Init /\ [][NextSteps]_vars

(***************************************************************************)
(* SpecNonPositive: populate, pushWord and clear on the one store with     *)
(* bitsPerRow set by the user to 0 or to a negative number.  populate is   *)
(* one step; call keeps the point the call had reached when it was left    *)
(* and the number of turns its inner loop took.  populate is called on a   *)
(* store of fewer than MaxStepWords Words, and once more after such a call.*)
(***************************************************************************)
NonPositiveConfigs ==
    [bitsPerRow : {Given(-b) : b \in 0..MaxNonPositive},
     bitWidth : {Absent}, rowHeight : {Absent}, paddingX : {Absent},
     paddingY : {Absent}, showBits : {Absent}]

NonPositiveDiagrams ==
    { <<>>,
      <<Block(0, NoEnd, "A")>>,
      <<Block(1, 2, "A")>>,
      <<Block(0, 1, "A"), Block(2, 0, "B")>>,
      <<Block(0, 2, "A"), Block(4, 4, "B")>> }

\* one step of populate, counting the turns of the inner loop: the steps
\* taken at the loop with its guard true
populateStepCounting(c) ==
    [st |-> populateStep(c.st),
     turns |-> IF c.st.pc = "while" /\ populateGuard(c.st)
               THEN c.turns + 1 ELSE c.turns]

\* up to 2^k steps, stopping when the call has ended
RECURSIVE populateRunCounting(_, _)
populateRunCounting(c, k) ==
    IF populateEnded(c.st) THEN c
    ELSE IF k = 0 THEN populateStepCounting(c)
    ELSE populateRunCounting(populateRunCounting(c, k - 1), k - 1)

InitNonPositive == Loaded /\ userConfig \in NonPositiveConfigs

\* populate(t), left after 2^RunDepth steps at the latest
NonPositivePopulate ==
    \E blocks \in NonPositiveDiagrams :
        LET c == populateRunCounting(
                    [st |-> populateInit(blocks, getPacket, getConfig.bitsPerRow),
                     turns |-> 0], RunDepth)
        IN  /\ \/ Len(packet) < MaxStepWords
               \/ last.op = "populate" /\ Len(last.base) < MaxStepWords
            /\ packet' = c.st.packet
            /\ template' = IF aliased THEN c.st.packet ELSE template
            /\ last' = Call("populate", blocks, packet, c.st.err,
                            last.op \in {"init", "clear"})
            /\ defaults' = getConfigOf(defaults, userConfig).defaults
            /\ call' = [active |-> FALSE, ast |-> blocks, base |-> packet,
                        turns |-> c.turns, st |-> c.st, prev |-> c.st]
            /\ UNCHANGED <<aliased, userConfig, firstRun, split, configs, drawn,
                           parses, owners>>

NonPositivePushWord ==
    \E word \in SessionWords :
        /\ Len(packet) < MaxStepWords
        /\ PushWord(word)
        /\ call' = NoCall
        /\ UNCHANGED <<firstRun, split, configs, drawn, parses, owners>>

NonPositiveClear ==
    /\ Clear
    /\ call' = NoCall
    /\ UNCHANGED <<firstRun, split, configs, drawn, parses, owners>>

NextNonPositive == NonPositivePopulate \/ NonPositivePushWord \/ NonPositiveClear

SpecNonPositive == InitNonPositive /\ [][NextNonPositive]_vars

(***************************************************************************)
(* What the claims speak of.                                               *)
(***************************************************************************)
bitsPerRow == getConfig.bitsPerRow

\* the last call was populate, made right after clear() or the loading of
\* the chunk: populate into a freshly cleared store
FreshPopulate == last.op = "populate" /\ last.fresh

\* the start populate expects of block i: the previous block's end + 1,
\* the previous end being the start when the end was left out; 0 for the first
ExpectedStart(blocks, i) == IF i = 1 THEN 0 ELSE EndOf(blocks[i - 1]) + 1

\* end given and less than start
BadRange(b) == HasEnd(b) /\ b.end < b.start

OffStart(blocks, i) == blocks[i].start # ExpectedStart(blocks, i)

\* first block at 0, every block with end >= start after defaulting, every
\* block starting at the previous end + 1
ValidInput(blocks) ==
    \A i \in 1..Len(blocks) : ~BadRange(blocks[i]) /\ ~OffStart(blocks, i)

\* the number of bits of a valid input
TotalBits(blocks) == NextStart(blocks)

\* the smallest i in 1..n with P(i); n + 1 when there is none
First(n, P(_)) ==
    IF \E i \in 1..n : P(i)
    THEN CHOOSE i \in 1..n : P(i) /\ \A j \in 1..(i - 1) : ~P(j)
    ELSE n + 1

CeilDiv(t, b) == (t + b - 1) \div b

\* the bit indices of one range, in order
RangeBits(b) == [i \in 1..(EndOf(b) - b.start + 1) |-> b.start + i - 1]

\* the concatenation of the ranges of blocks[lo..hi]
RECURSIVE ConcatBits(_, _, _)
ConcatBits(blocks, lo, hi) ==
    IF lo > hi THEN <<>>
    ELSE IF lo = hi THEN RangeBits(blocks[lo])
    ELSE LET mid == (lo + hi) \div 2
         IN  ConcatBits(blocks, lo, mid) \o ConcatBits(blocks, mid + 1, hi)

BitsOf(blocks) == ConcatBits(blocks, 1, Len(blocks))

\* the sub-blocks of the Words store[lo..hi], in order
RECURSIVE Flatten(_, _, _)
Flatten(store, lo, hi) ==
    IF lo > hi THEN <<>>
    ELSE IF lo = hi THEN store[lo]
    ELSE LET mid == (lo + hi) \div 2
         IN  Flatten(store, lo, mid) \o Flatten(store, mid + 1, hi)

SubBlocks(store) == Flatten(store, 1, Len(store))

\* the bits 0..n-1
FirstBits(n) == [i \in 1..n |-> i - 1]

RECURSIVE WordBits(_)
WordBits(w) ==
    IF w = <<>> THEN 0
    ELSE (Head(w).end - Head(w).start + 1) + WordBits(Tail(w))

\* a block of a valid input is cut over two rows or more
SomeBlockSplit(blocks) ==
    \E i \in 1..Len(blocks) :
        blocks[i].start \div bitsPerRow # EndOf(blocks[i]) \div bitsPerRow

(***************************************************************************)
(* C1.  populate is a pure re-partitioning.                                *)
(***************************************************************************)
\* C1 as stated: for every valid input populated into a cleared store, the
\* concatenation of the sub-block ranges of the store equals the
\* concatenation of the input block ranges.
C1_Repartition ==
    (FreshPopulate /\ ValidInput(last.input))
        => BitsOf(SubBlocks(packet)) = BitsOf(last.input)

\* C1 amended: for every valid input of T bits populated into a cleared
\* store, the concatenation of the sub-block ranges equals the first
\* min(T, 10000 * bitsPerRow) bits of the concatenation of the input ranges:
\* all of it when T <= 10000 * bitsPerRow, and nothing past the ceiling.
C1_RepartitionUpToCeiling ==
    (FreshPopulate /\ ValidInput(last.input))
        => /\ last.err = NoError
           /\ BitsOf(SubBlocks(packet)) =
                SubSeq(BitsOf(last.input), 1,
                       Min(TotalBits(last.input), MaxPacketSize * bitsPerRow))

\* a valid diagram of several blocks, one of them cut over rows, laid out whole
C1_Witness ==
    /\ FreshPopulate /\ ValidInput(last.input)
    /\ Len(last.input) >= 2 /\ SomeBlockSplit(last.input)
    /\ Len(packet) >= 3
    /\ BitsOf(SubBlocks(packet)) = BitsOf(last.input)

(***************************************************************************)
(* C2.  A gap or an overlap raises the non-contiguous-block error.         *)
(***************************************************************************)
\* the first block whose start is not the expected one
FirstOffStart(blocks) == First(Len(blocks), LAMBDA i : OffStart(blocks, i))

\* some block's start differs from the previous block's end + 1
HasGapOrOverlap(blocks) == \E i \in 2..Len(blocks) : OffStart(blocks, i)

\* the non-contiguous-block error naming the start expected of block i
NotContiguousAt(blocks, i) ==
    /\ last.err.kind = "notContiguous"
    /\ last.err.start = blocks[i].start
    /\ last.err.expected = ExpectedStart(blocks, i)

\* C2 as stated: for every input in which some block's start differs from
\* the previous block's end + 1, populate raises the non-contiguous-block
\* error, and the error names the expected start.
C2_GapRaisesNotContiguous ==
    (last.op = "populate" /\ HasGapOrOverlap(last.input))
        => NotContiguousAt(last.input, FirstOffStart(last.input))

\* C2 amended: for every such input populate raises an error and does not
\* complete normally; the error is the non-contiguous-block error naming the
\* expected start whenever no block up to and including the first
\* non-contiguous one has an end that is given and less than its start
\* (for such a block the range check, made first, may raise instead).
C2_GapRaises ==
    (last.op = "populate" /\ HasGapOrOverlap(last.input))
        => LET k == FirstOffStart(last.input)
           IN  /\ last.err # NoError
               /\ (\A j \in 1..k : ~BadRange(last.input[j]))
                      => NotContiguousAt(last.input, k)

\* a gap after a first block that was accepted: the error names previous end + 1
C2_Witness ==
    /\ last.op = "populate" /\ Len(last.input) = 2
    /\ last.input[1].end # NoEnd /\ last.input[1].end > 0
    /\ last.input[2].start = last.input[1].end + 2
    /\ ~BadRange(last.input[2])
    /\ last.err.kind = "notContiguous"
    /\ last.err.expected = last.input[1].end + 1

(***************************************************************************)
(* C3.  An end less than the start raises the invalid-range error.         *)
(***************************************************************************)
FirstBadRange(blocks) == First(Len(blocks), LAMBDA i : BadRange(blocks[i]))

\* C3: when the blocks before it are accepted, a block whose end is given
\* and less than its start (end = 0 included, contiguous or not) makes
\* populate raise a range error: the range check comes before the
\* contiguity check.  Either range error counts here, populate's "is
\* invalid" and getNextFittingBlock's "start is greater than block end".
C3_BadRangeRaisesInvalid ==
    (/\ last.op = "populate"
     /\ FirstBadRange(last.input) <= Len(last.input)
     /\ ValidInput(SubSeq(last.input, 1, FirstBadRange(last.input) - 1)))
        => last.err.kind \in {"invalid", "startGreater"}

(***************************************************************************)
(* C4.  Every Word but the last is a full row.                             *)
(***************************************************************************)
\* C4: after populate on a valid input into a cleared store, the bits of
\* every Word except possibly the last add up to bitsPerRow.
C4_FullRows ==
    (FreshPopulate /\ ValidInput(last.input))
        => \A k \in 1..(Len(packet) - 1) : WordBits(packet[k]) = bitsPerRow

\* three Words or more, the last one shorter than a row, a row of several sub-blocks
C4_Witness ==
    /\ FreshPopulate /\ ValidInput(last.input)
    /\ Len(packet) >= 3
    /\ WordBits(packet[Len(packet)]) < bitsPerRow
    /\ \E k \in 1..(Len(packet) - 1) :
          Len(packet[k]) >= 2 /\ WordBits(packet[k]) = bitsPerRow

(***************************************************************************)
(* C5.  The number of Words.                                               *)
(***************************************************************************)
\* C5 as stated: a valid input of T bits populated into a cleared store
\* leaves exactly ceil(T / bitsPerRow) Words.
C5_WordCount ==
    (FreshPopulate /\ ValidInput(last.input))
        => Len(packet) = CeilDiv(TotalBits(last.input), bitsPerRow)

\* C5 amended: it leaves exactly min(ceil(T / bitsPerRow), 10000) Words:
\* the partial last row is flushed as a final shorter Word, no empty Word
\* follows a full last row, and no Word is pushed past the 10,000th.
C5_WordCountUpToCeiling ==
    (FreshPopulate /\ ValidInput(last.input))
        => Len(packet) =
             Min(CeilDiv(TotalBits(last.input), bitsPerRow), MaxPacketSize)

\* a total that is no multiple of bitsPerRow: the last Word is the shorter rest
C5_Witness ==
    /\ FreshPopulate /\ ValidInput(last.input)
    /\ bitsPerRow > 1
    /\ TotalBits(last.input) > bitsPerRow
    /\ TotalBits(last.input) % bitsPerRow # 0
    /\ Len(packet) = TotalBits(last.input) \div bitsPerRow + 1
    /\ WordBits(packet[Len(packet)]) = TotalBits(last.input) % bitsPerRow

(***************************************************************************)
(* C6.  A block over N rows is N sub-blocks with its label.                *)
(***************************************************************************)
\* the rows (counted from 0) the block meets
RowsOf(b) == (b.start \div bitsPerRow)..(EndOf(b) \div bitsPerRow)

\* the part of the block in row r, with the block's label
Piece(b, r) ==
    Block(Max(b.start, r * bitsPerRow),
          Min(EndOf(b), (r + 1) * bitsPerRow - 1),
          b.label)

\* the sub-blocks of Word w that hold a bit of the block
Within(w, b) ==
    {j \in 1..Len(w) : w[j].start <= EndOf(b) /\ w[j].end >= b.start}

\* row r holds one sub-block of the block, and it is its piece for that row
OnePieceIn(b, r) ==
    /\ r + 1 <= Len(packet)
    /\ \E j \in 1..Len(packet[r + 1]) :
          /\ Within(packet[r + 1], b) = {j}
          /\ packet[r + 1][j] = Piece(b, r)

\* C6 as stated: in a valid input populated into a cleared store, a block
\* that meets N rows is emitted as N sub-blocks, one in each of these rows,
\* each with the block's label and cut at the row boundaries.
C6_OnePiecePerRow ==
    (FreshPopulate /\ ValidInput(last.input))
        => \A i \in 1..Len(last.input) :
              \A r \in RowsOf(last.input[i]) : OnePieceIn(last.input[i], r)

\* C6 amended: it is emitted as one such sub-block in each of these rows
\* that is among the first 10,000 rows of the diagram, and as nothing in
\* the rows from the 10,000th on.
C6_OnePiecePerRowUpToCeiling ==
    (FreshPopulate /\ ValidInput(last.input))
        => /\ Len(packet) <= MaxPacketSize
           /\ \A i \in 1..Len(last.input) :
                 \A r \in RowsOf(last.input[i]) :
                    r < MaxPacketSize => OnePieceIn(last.input[i], r)

\* a labelled block cut over three rows, after another block
C6_Witness ==
    /\ FreshPopulate /\ ValidInput(last.input)
    /\ \E i \in 2..Len(last.input) :
          /\ Cardinality(RowsOf(last.input[i])) = 3
          /\ \A r \in RowsOf(last.input[i]) : OnePieceIn(last.input[i], r)
          /\ last.input[i].label # last.input[1].label

(***************************************************************************)
(* C9.  What a populate that raised leaves in the store.                   *)
(***************************************************************************)
\* the first block populate cannot accept
FirstRejected(blocks) ==
    First(Len(blocks), LAMBDA i : BadRange(blocks[i]) \/ OffStart(blocks, i))

\* C9 as stated: when populate, called on a cleared store, raises an error,
\* the store holds no Words of the failed diagram.
C9_FailureLeavesNothing ==
    (FreshPopulate /\ last.err # NoError) => packet = <<>>

\* C9 amended: when populate, called on a cleared store, raises an error on
\* block k, the failed diagram leaves a partial result: with P the bits of
\* the (well-formed, contiguous) blocks before k, the store holds the
\* min(floor(P / bitsPerRow), 10000) full rows completed from them, covering
\* the bits from 0 on in order; the unfinished row and block k contribute
\* nothing, and the store is empty only when P < bitsPerRow.
C9_FailureLeavesFullRows ==
    (FreshPopulate /\ last.err # NoError)
        => LET k == FirstRejected(last.input)
               P == ExpectedStart(last.input, k)
               full == Min(P \div bitsPerRow, MaxPacketSize)
           IN  /\ k <= Len(last.input)
               /\ Len(packet) = full
               /\ \A w \in 1..Len(packet) : WordBits(packet[w]) = bitsPerRow
               /\ BitsOf(SubBlocks(packet)) = FirstBits(full * bitsPerRow)

\* an error after two full rows and an unfinished third
C9_Witness ==
    /\ FreshPopulate /\ last.err # NoError
    /\ Len(packet) = 2
    /\ ExpectedStart(last.input, FirstRejected(last.input)) > 2 * bitsPerRow

(***************************************************************************)
(* C10.  The ceiling of 10,000.                                            *)
(***************************************************************************)
\* C10 as stated: after a populate into a cleared store the store holds at
\* most 10,000 sub-blocks over all its Words.
C10_AtMostCeilingSubBlocks ==
    FreshPopulate => Len(SubBlocks(packet)) <= MaxPacketSize

\* C10 amended: after a populate into a cleared store the store holds at
\* most 10,000 Words, and so at most 10,000 * bitsPerRow sub-blocks.
C10_AtMostCeilingWords ==
    FreshPopulate
        => /\ Len(packet) <= MaxPacketSize
           /\ Len(SubBlocks(packet)) <= MaxPacketSize * bitsPerRow

\* the ceiling reached: 10,000 Words and a diagram that has more bits
C10_Witness ==
    /\ FreshPopulate /\ ValidInput(last.input)
    /\ Len(packet) = MaxPacketSize
    /\ TotalBits(last.input) > MaxPacketSize * bitsPerRow

(***************************************************************************)
(* C11.  The ceiling is reached silently.                                  *)
(***************************************************************************)
\* C11: when a valid input populated into a cleared store has the bits of
\* 10,000 rows or more, populate returns without an error and the store
\* holds the first 10,000 rows and nothing else: the rest of the block
\* being laid out and all later blocks leave no sub-block.
C11_CeilingStopsSilently ==
    (/\ FreshPopulate /\ ValidInput(last.input)
     /\ TotalBits(last.input) >= MaxPacketSize * bitsPerRow)
        => /\ last.err = NoError
           /\ Len(packet) = MaxPacketSize
           /\ BitsOf(SubBlocks(packet)) = FirstBits(MaxPacketSize * bitsPerRow)

\* the ceiling reached before the last blocks of the diagram: they are
\* dropped whole and populate returned normally
C11_Witness ==
    /\ FreshPopulate /\ ValidInput(last.input)
    /\ Len(last.input) >= 2
    /\ last.input[Len(last.input)].start >= MaxPacketSize * bitsPerRow
    /\ last.err = NoError
    /\ Len(packet) = MaxPacketSize
    /\ packet[MaxPacketSize][1].end = MaxPacketSize * bitsPerRow - 1

(***************************************************************************)
(* C12.  The first block is expected at 0.                                 *)
(***************************************************************************)
\* the non-contiguous-block error for a first block b, naming 0
FirstBlockError(b) == NotContiguousError(b.start, EndOf(b), -1)

\* C12 as stated: in every populate call, a first block with start = 0 is
\* accepted, and a first block with any other start makes populate raise
\* the non-contiguous-block error naming 0 as the expected start, with
\* nothing emitted.
C12_FirstStartIsZero ==
    (last.op = "populate" /\ Len(last.input) >= 1)
        => LET b == last.input[1]
           IN  IF b.start = 0
               THEN /\ last.err # FirstBlockError(b)
                    /\ Len(last.input) = 1 => last.err = NoError
               ELSE /\ last.err = FirstBlockError(b)
                    /\ packet = last.base

\* C12 amended: in every populate call, whatever the store holds, a first
\* block with start = 0 is accepted, and a first block with any other start
\* makes populate raise an error with nothing emitted: the
\* non-contiguous-block error naming 0 as the expected start, unless the
\* block's end is given, is not 0 and is less than its start, for which the
\* range check, made first, raises the invalid-range error.
C12_FirstStartIsZeroOrInvalid ==
    (last.op = "populate" /\ Len(last.input) >= 1)
        => LET b == last.input[1]
           IN  IF b.start = 0
               THEN /\ last.err # FirstBlockError(b)
                    /\ Len(last.input) = 1 => last.err = NoError
               ELSE /\ packet = last.base
                    /\ last.err = IF BadRange(b) /\ b.end # 0
                                  THEN InvalidError(b.start, b.end)
                                  ELSE FirstBlockError(b)

\* a diagram starting at 2, populated into a store that holds Words already
C12_Witness ==
    /\ last.op = "populate" /\ Len(last.input) >= 1
    /\ last.base # <<>>
    /\ last.input[1].start = 2
    /\ last.err.kind = "notContiguous" /\ last.err.expected = 0
    /\ packet = last.base

(***************************************************************************)
(* C13.  The store is append-only, and only populate appends.              *)
(***************************************************************************)
IsPrefix(a, b) == Len(a) <= Len(b) /\ SubSeq(b, 1, Len(a)) = a

\* C13: after a populate, draw, getConfig or getPacket call the Words the
\* store held before the call are an unchanged prefix of the Words it
\* holds, and after draw, getConfig and getPacket the store is as it was.
C13_AppendOnly ==
    last.op \in {"populate", "draw", "getConfig", "getPacket"}
        => /\ IsPrefix(last.base, packet)
           /\ last.op # "populate" => packet = last.base

\* a populate that appended Words to a store that held Words already
C13_Witness ==
    /\ last.op = "populate"
    /\ last.base # <<>>
    /\ Len(packet) >= Len(last.base) + 2
    /\ IsPrefix(last.base, packet)

(***************************************************************************)
(* C14.  The block splitter.                                               *)
(***************************************************************************)
\* the bits of a range
Bits(b) == b.start..b.end

\* the block of the call, its end defaulted to its start
SplitBlock == Block(split.block.start, EndOf(split.block), split.block.label)

\* limit = rowIndex * bitsPerRow - 1
SplitLimit == split.row * split.bitsPerRow - 1

\* the call returned (block, none)
ReturnsWhole ==
    /\ split.result.err = NoError
    /\ ~split.result.more
    /\ split.result.fit = SplitBlock

\* the call returned the part up to the limit and the remainder after it,
\* both with the block's label
ReturnsParts ==
    /\ split.result.err = NoError
    /\ split.result.more
    /\ split.result.fit = Block(SplitBlock.start, SplitLimit, SplitBlock.label)
    /\ split.result.rest = Block(SplitLimit + 1, SplitBlock.end, SplitBlock.label)

\* fitting part and remainder are adjacent, do not overlap and together
\* cover exactly the block's range
PartsCover ==
    /\ split.result.rest.start = split.result.fit.end + 1
    /\ Bits(split.result.fit) \cap Bits(split.result.rest) = {}
    /\ Bits(split.result.fit) \cup Bits(split.result.rest) = Bits(SplitBlock)

\* C14 as stated: for start <= end, getNextFittingBlock returns (block,
\* none) if block.end <= limit, and otherwise the fitting part {start,
\* limit, label} and the remainder {limit + 1, end, label}, which are
\* adjacent, do not overlap and together cover exactly the block's range;
\* for start > end it fails with the validation error.
C14_SplitCovers ==
    split.called
        => IF SplitBlock.start > SplitBlock.end
           THEN split.result.err = StartGreaterError(SplitBlock)
           ELSE IF SplitBlock.end <= SplitLimit
           THEN ReturnsWhole
           ELSE ReturnsParts /\ PartsCover

\* C14 amended: the same returned values, and the two parts are adjacent,
\* do not overlap and together cover exactly the block's range whenever
\* the block starts no later than limit + 1 (at limit + 1 the fitting part
\* is the empty range {start, start - 1}), which is so in every call
\* populate makes with bitsPerRow >= 0; for a block that starts further
\* on, as populate passes them with a negative bitsPerRow, the fitting
\* part ends before it starts and the remainder begins before the block
\* does.
C14_SplitCoversFromRow ==
    split.called
        => IF SplitBlock.start > SplitBlock.end
           THEN split.result.err = StartGreaterError(SplitBlock)
           ELSE IF SplitBlock.end <= SplitLimit
           THEN ReturnsWhole
           ELSE /\ ReturnsParts
                /\ split.bitsPerRow >= 0 => SplitBlock.start <= SplitLimit + 1
                /\ SplitBlock.start <= SplitLimit + 1 => PartsCover
                /\ SplitBlock.start > SplitLimit + 1 =>
                      /\ split.result.fit.end < split.result.fit.start
                      /\ split.result.rest.start < SplitBlock.start

\* a block that starts in the row and ends after it, cut at the limit
C14_Witness ==
    /\ split.called
    /\ SplitBlock.start < SplitLimit /\ SplitLimit + 1 < SplitBlock.end
    /\ ReturnsParts /\ PartsCover
    /\ split.row >= 2

(***************************************************************************)
(* C15.  The Word at index k holds bits of row k only.                     *)
(***************************************************************************)
\* sub-block x lies inside the window of row k (counted from 0)
InRow(x, k) == k * bitsPerRow <= x.start /\ x.end <= (k + 1) * bitsPerRow - 1

\* C15: after populate on a valid input into a cleared store, every
\* sub-block of the Word at store index k (counted from 0) lies inside
\* [k * bitsPerRow, (k + 1) * bitsPerRow - 1].
C15_WordIndexIsRow ==
    (FreshPopulate /\ ValidInput(last.input))
        => \A k \in 1..Len(packet) : \A j \in 1..Len(packet[k]) :
              InRow(packet[k][j], k - 1)

\* three rows or more, a later row made of several sub-blocks
C15_Witness ==
    /\ FreshPopulate /\ ValidInput(last.input)
    /\ Len(packet) >= 3
    /\ \E k \in 2..Len(packet) :
          /\ Len(packet[k]) >= 2
          /\ \A j \in 1..Len(packet[k]) : InRow(packet[k][j], k - 1)

(***************************************************************************)
(* C16.  A Word has at most bitsPerRow + 1 sub-blocks.                     *)
(***************************************************************************)
\* C16: every Word of the store after a populate into a cleared store,
\* whether populate returned or raised, has at most bitsPerRow + 1
\* sub-blocks.
C16_WordLength ==
    FreshPopulate => \A k \in 1..Len(packet) : Len(packet[k]) <= bitsPerRow + 1

\* a row of one-bit sub-blocks, as many as a row can hold
C16_Witness ==
    /\ FreshPopulate
    /\ bitsPerRow >= 2
    /\ \E k \in 1..Len(packet) : Len(packet[k]) = bitsPerRow

(***************************************************************************)
(* C17.  A stored sub-block has an end, not before its start.              *)
(***************************************************************************)
\* C17: every sub-block of the store after a populate into a cleared
\* store, whether populate returned or raised, has a defined end with
\* end >= start.
C17_EndDefined ==
    FreshPopulate
        => \A k \in 1..Len(packet) : \A j \in 1..Len(packet[k]) :
              HasEnd(packet[k][j]) /\ packet[k][j].end >= packet[k][j].start

\* a block given without an end, stored with end = start
C17_Witness ==
    /\ FreshPopulate
    /\ \E i \in 1..Len(last.input) :
          /\ ~HasEnd(last.input[i])
          /\ \E k \in 1..Len(packet) : \E j \in 1..Len(packet[k]) :
                packet[k][j] = Block(last.input[i].start, last.input[i].start,
                                     last.input[i].label)

(***************************************************************************)
(* C18.  getConfig.                                                        *)
(***************************************************************************)
\* the user's value of key k when it is given, the built-in default otherwise
Option(k) == IF userConfig[k] # Absent THEN userConfig[k][1] ELSE DefaultConfig[k]

\* the config the options resolve to: key by key, and paddingY raised by
\* 10 when the merged showBits is true
Resolved ==
    [k \in DOMAIN DefaultConfig |->
        IF k = "paddingY" /\ Option("showBits")
        THEN Option("paddingY") + 10
        ELSE Option(k)]

\* C18: every getConfig call made under the present options returns the
\* defaults overridden key by key by the user's options, with paddingY
\* raised by exactly 10 when the merged showBits is true: the same values
\* at the first call and at every later one.
C18_GetConfig ==
    \A i \in 1..Len(configs) : configs[i] = Resolved

\* a third call under options that give paddingY and bitsPerRow and leave
\* showBits to the default: the user's paddingY plus 10, as at the first call
C18_Witness ==
    /\ Len(configs) = 3
    /\ userConfig.paddingY # Absent /\ userConfig.showBits = Absent
    /\ userConfig.bitsPerRow # Absent
    /\ configs[3].paddingY = userConfig.paddingY[1] + 10
    /\ configs[3].bitsPerRow # DefaultConfig.bitsPerRow
    /\ configs[3] = configs[1]

(***************************************************************************)
(* C19.  The rectangle of a sub-block.                                     *)
(***************************************************************************)
\* the rectangle of sub-block b of the Word at row index r, its x moved
\* right by off
RectOf(b, r, off) ==
    [x |-> (b.start % getConfig.bitsPerRow) * getConfig.bitWidth + off,
     y |-> r * (getConfig.rowHeight + getConfig.paddingY) + getConfig.paddingY,
     width |-> (b.end - b.start + 1) * getConfig.bitWidth - getConfig.paddingX,
     height |-> getConfig.rowHeight]

\* draw gave every sub-block of the store the rectangle RectOf(.., off)
DrewRects(off) ==
    /\ Len(drawn[1].groups) = Len(packet)
    /\ \A r \in 1..Len(packet) :
          /\ Len(drawn[1].groups[r]) = Len(packet[r])
          /\ \A j \in 1..Len(packet[r]) :
                drawn[1].groups[r][j].rect = RectOf(packet[r][j], r - 1, off)

\* C19 as stated: for the Word at row index r and each of its sub-blocks
\* draw computes x = (start mod bitsPerRow) * bitWidth,
\* y = r * (rowHeight + paddingY) + paddingY,
\* width = (end - start + 1) * bitWidth - paddingX and height = rowHeight.
C19_Rect ==
    drawn # <<>> => DrewRects(0)

\* C19 amended: x = (start mod bitsPerRow) * bitWidth + 1, and y, width
\* and height as stated.
C19_RectOffsetOne ==
    drawn # <<>> => DrewRects(1)

\* a drawing of two rows or more, with a sub-block that is not the first
\* of its row, in a row that is not the first
C19_Witness ==
    /\ drawn # <<>>
    /\ \E r \in 2..Len(packet) : \E j \in 2..Len(packet[r]) :
          /\ packet[r][j].start % getConfig.bitsPerRow # 0
          /\ drawn[1].groups[r][j].rect.x =
                (packet[r][j].start % getConfig.bitsPerRow) * getConfig.bitWidth + 1
          /\ drawn[1].groups[r][j].rect.y > getConfig.rowHeight

(***************************************************************************)
(* C20.  populate runs without suspension.                                 *)
(***************************************************************************)
\* the Words of each parse call are next to each other in the store
Contiguous(o) ==
    \A i \in 1..Len(o) : \A k \in i..Len(o) :
        o[i] = o[k] => \A j \in i..k : o[j] = o[i]

\* C20: with several parse calls in flight on the one store, no populate
\* is ever found suspended, and the Words each populate appended are one
\* contiguous run of the store, not interleaved with those of another call.
C20_PopulateAtomic ==
    /\ \A i \in 1..Len(parses) : parses[i].pc # "suspended"
    /\ Len(owners) = Len(packet)
    /\ Contiguous(owners)

\* two calls in flight together, the later one resumed first: its Words
\* come first, those of the earlier call after them, a third call waiting
C20_Witness ==
    /\ Len(parses) = 3
    /\ parses[1].pc \in {"done", "threw"} /\ parses[2].pc = "done"
    /\ parses[3].pc = "await"
    /\ Len(owners) >= 4
    /\ owners[1] = 2 /\ owners[2] = 2
    /\ owners[Len(owners)] = 1 /\ owners[Len(owners) - 1] = 1
    /\ Contiguous(owners)

(***************************************************************************)
(* C21.  When a row is closed.                                             *)
(***************************************************************************)
\* the call is at a point of its loops
InLoops == call.active /\ call.st.pc \in {"for", "while"}

\* the last step was a turn of the inner loop that appended a fitting part
TurnTaken ==
    /\ call.active
    /\ call.prev.pc = "while" /\ call.st.pc \in {"for", "while"}
    /\ call.st.word # call.prev.word \/ call.st.packet # call.prev.packet

\* the fitting part that turn appended
FitTaken ==
    IF call.st.packet # call.prev.packet
    THEN LET w == call.st.packet[Len(call.st.packet)] IN w[Len(w)]
    ELSE call.st.word[Len(call.st.word)]

\* the turn pushed the row with the fitting part as its last sub-block,
\* emptied the accumulator and raised rowIndex by exactly 1
RowClosed ==
    /\ call.st.packet = Append(call.prev.packet, Append(call.prev.word, FitTaken))
    /\ call.st.word = <<>>
    /\ call.st.row = call.prev.row + 1

\* the turn only added the fitting part to the accumulator
RowKept ==
    /\ call.st.packet = call.prev.packet
    /\ call.st.word = Append(call.prev.word, FitTaken)
    /\ call.st.row = call.prev.row

\* C21: a turn of the inner loop closes the row (pushes it, empties the
\* accumulator, raises rowIndex by 1) exactly when the fitting part it
\* appended has end + 1 = rowIndex * bitsPerRow, and otherwise only adds
\* the fitting part to the accumulator; so at every point of the loops of a
\* populate call on a cleared store rowIndex is 1 + the number of Words of
\* the store and the accumulator holds sub-blocks of row rowIndex - 1 only.
C21_RowClosedAtBoundary ==
    /\ TurnTaken =>
          IF FitTaken.end + 1 = call.prev.row * call.st.bitsPerRow
          THEN RowClosed ELSE RowKept
    /\ (InLoops /\ call.base = <<>>) =>
          /\ call.st.row = 1 + Len(packet)
          /\ \A j \in 1..Len(call.st.word) :
                /\ (call.st.row - 1) * call.st.bitsPerRow <= call.st.word[j].start
                /\ call.st.word[j].end <= call.st.row * call.st.bitsPerRow - 1

\* the second row closed by the rest of one block, after a piece of another
C21_Witness ==
    /\ TurnTaken /\ RowClosed
    /\ call.base = <<>>
    /\ call.prev.row = 2 /\ call.st.row = 3
    /\ Len(call.prev.word) >= 1
    /\ Len(packet) = 2

(***************************************************************************)
(* C22.  populate terminates.                                              *)
(***************************************************************************)
\* the block the inner loop is working on
BlockAtHand == call.ast[call.st.i - 1]

\* the inner loop has taken no more turns for the block at hand than the
\* block meets rows (one turn for a block whose end is before its start)
TurnsBound ==
    (call.active /\ call.turns > 0)
        => call.turns <=
             IF BadRange(BlockAtHand) THEN 1
             ELSE EndOf(BlockAtHand) \div call.st.bitsPerRow
                    - BlockAtHand.start \div call.st.bitsPerRow + 1

\* what is left to do at a point of the call: the blocks not yet taken from
\* the list, each counted as more than any block has bits, and in the inner
\* loop the bits of the working block and the exit from the loop; nothing
\* once the call has returned or raised
Rank(st) ==
    IF populateEnded(st) THEN 0
    ELSE (Len(st.blocks) - st.i + 1) * (MaxBit + 4) + 1
         + IF st.pc = "while" THEN Max(EndOf(st) - st.start, 0) + 2 ELSE 0

\* C22: every populate call returns or raises: each step of its loops
\* leaves strictly less to do than the step before (a turn of the inner
\* loop breaks, or goes on with a strictly shorter remainder, or finds the
\* ceiling reached), and the inner loop takes at most one turn per row the
\* block at hand meets.
C22_Terminates ==
    /\ TurnsBound
    /\ (call.active /\ call.st # call.prev)
          => Rank(call.st) >= 0 /\ Rank(call.st) < Rank(call.prev)

\* a call that has returned after three turns for its last block, one per row
C22_Witness ==
    /\ call.active /\ call.st.pc = "done"
    /\ call.prev.pc = "for"
    /\ call.turns = 0
    /\ Len(call.ast) >= 2
    /\ Len(packet) >= Len(call.base) + 3
    /\ call.st.bitsPerRow = 1

(***************************************************************************)
(* C23.  A block given without end.                                        *)
(***************************************************************************)
\* the call has just finished with a block and is back at the head of the
\* for-of loop
BlockDone ==
    /\ call.active
    /\ call.st.pc = "for" /\ call.prev.pc = "while"
    /\ call.st.i = call.prev.i

\* the sub-blocks the last step emitted, into the accumulator or, with the
\* row it closed, into the store
StepPieces ==
    IF call.st.packet # call.prev.packet
    THEN LET w == call.st.packet[Len(call.st.packet)]
         IN  SubSeq(w, Len(call.prev.word) + 1, Len(w))
    ELSE SubSeq(call.st.word, Len(call.prev.word) + 1, Len(call.st.word))

\* the block just finished was given without end
BareDone == BlockDone /\ ~HasEnd(BlockAtHand)

\* the one-bit block a block without end stands for
OneBit(b) == Block(b.start, b.start, b.label)

\* the expected start of the next block is the end of the block just
\* finished + 1, the start + 1 for a block without end
NextStartFollows ==
    BlockDone =>
        call.st.lastByte + 1 =
            IF HasEnd(BlockAtHand) THEN BlockAtHand.end + 1
            ELSE BlockAtHand.start + 1

\* C23 as stated: a block given without end yields exactly one sub-block,
\* {start, start}, and the next block is expected at start + 1; after a
\* block with end the next block is expected at its end + 1.
C23_BareBlockOneBit ==
    /\ BareDone => StepPieces = <<OneBit(BlockAtHand)>>
    /\ NextStartFollows

\* C23 as the code has it: a block given without end yields exactly one
\* sub-block, {start, start}, when the store holds fewer than 10000 Words at
\* its turn, and none when the store holds 10000 Words; either way the next
\* block is expected at start + 1, and after a block with end at its end + 1,
\* also when the block was split over several rows.
C23_BareBlockOneBitBelowCeiling ==
    /\ BareDone =>
          StepPieces = IF Len(call.prev.packet) < MaxPacketSize
                       THEN <<OneBit(BlockAtHand)>> ELSE <<>>
    /\ NextStartFollows

\* a block without end laid out as one bit in the middle of a row, the
\* next block expected right after it
C23_Witness ==
    /\ BareDone
    /\ BlockAtHand.start = 2
    /\ StepPieces = <<Block(2, 2, "B")>>
    /\ call.st.lastByte = 2
    /\ Len(call.st.word) >= 1

(***************************************************************************)
(* C24.  What an error leaves in the store.                                *)
(***************************************************************************)
\* the call has just raised an error
Raised == call.active /\ call.st.pc = "threw"

\* the block the error was raised on: the one at the head of the for-of
\* loop, or the one the inner loop was working on
RaisedOn == IF call.prev.pc = "for" THEN call.st.i ELSE call.st.i - 1

\* the pieces of the first n blocks in row r (counted from 0), in order
RowFrom(blocks, n, r) ==
    LET meets == SelectSeq([i \in 1..n |-> blocks[i]],
                           LAMBDA b : r \in RowsOf(b))
    IN  [j \in 1..Len(meets) |-> Piece(meets[j], r)]

\* the full rows the blocks before block k complete, as far as the store
\* had room for them
FullRowsBefore(blocks, k, room) ==
    LET full == Min(ExpectedStart(blocks, k) \div bitsPerRow, room)
    IN  [r \in 1..full |-> RowFrom(blocks, k - 1, r - 1)]

\* C24: when populate raises an error on block k, the store holds what it
\* held before the call and then exactly the full rows completed from the
\* blocks before k: no sub-block of block k or of a later block, and not
\* the unfinished row.
C24_ErrorLeavesFullRows ==
    Raised =>
        /\ RaisedOn \in 1..Len(call.ast)
        /\ packet = call.base \o FullRowsBefore(call.ast, RaisedOn,
                                               MaxPacketSize - Len(call.base))

\* an error on the second block, after a full row and a piece of the next
\* row, in a store that held a Word before the call
C24_Witness ==
    /\ Raised /\ RaisedOn = 2
    /\ Len(call.base) = 1
    /\ Len(packet) = 2
    /\ Len(call.prev.word) >= 1

(***************************************************************************)
(* C25.  Never more than 10,000 Words.                                     *)
(***************************************************************************)
\* the last step was the flush after the for-of loop
FinalFlush ==
    call.active /\ call.st.pc = "done" /\ call.prev.pc = "for"

\* C25: at every point of every populate and after every clear the store
\* holds at most 10000 Words; the accumulator is empty whenever the store
\* holds 10000 Words, so the flush after the for-of loop pushes a Word only
\* onto a store of fewer than 10000 Words.
C25_NeverPastCeiling ==
    /\ Len(packet) <= MaxPacketSize
    /\ InLoops => (call.st.word # <<>> => Len(packet) < MaxPacketSize)
    /\ (FinalFlush /\ packet # call.prev.packet)
          => Len(call.prev.packet) < MaxPacketSize

\* the flush after the for-of loop pushes the 10000th Word
C25_Witness ==
    /\ FinalFlush
    /\ Len(call.base) = MaxPacketSize - 1
    /\ call.prev.word # <<>>
    /\ Len(packet) = MaxPacketSize

(***************************************************************************)
(* C26.  No empty Word.                                                    *)
(***************************************************************************)
\* the call has returned or raised
CallEnded == call.active /\ populateEnded(call.st)

\* C26: no Word of the store is empty; the flush after the for-of loop
\* leaves the store as it is when the accumulator is empty, so a populate
\* of an empty block list, and a populate entered with 10000 Words in the
\* store, leave the store as it was before the call.
C26_NoEmptyWord ==
    /\ \A k \in 1..Len(packet) : Len(packet[k]) > 0
    /\ (FinalFlush /\ call.prev.word = <<>>) => packet = call.prev.packet
    /\ (CallEnded /\ call.ast = <<>>) => packet = call.base
    /\ (CallEnded /\ Len(call.base) = MaxPacketSize) => packet = call.base

\* a row-aligned input: the flush after the last full row adds no Word
C26_Witness ==
    /\ FinalFlush
    /\ call.st.err = NoError
    /\ call.ast # <<>>
    /\ call.prev.word = <<>>
    /\ Len(call.base) = 1
    /\ Len(packet) = Len(call.base) + 2

(***************************************************************************)
(* C27.  Validation at the ceiling.                                        *)
(***************************************************************************)
\* C27: a populate entered with 10000 Words in the store still raises an
\* error when one of its blocks has its end before its start or does not
\* start at the previous block's end + 1.
C27_CeilingStillValidates ==
    (CallEnded /\ Len(call.base) = MaxPacketSize
               /\ FirstRejected(call.ast) <= Len(call.ast))
        => call.st.pc = "threw"

(***************************************************************************)
(* C28.  The rectangles of one row.                                        *)
(***************************************************************************)
\* the store is what populate makes of a valid diagram in a cleared store
FromValidInput ==
    \E d \in DrawDiagrams :
        /\ ValidInput(d)
        /\ packet = populate(d, <<>>, bitsPerRow).packet

\* the rectangles drawn for the Word at index r
Rects(r) == [j \in 1..Len(drawn[1].groups[r]) |-> drawn[1].groups[r][j].rect]

\* C28: in a drawing of a store made by populate from a valid input in a
\* cleared store, with bitsPerRow > 0, bitWidth > 0 and paddingX >= 0, each
\* rectangle of a Word ends no further right than the next rectangle of
\* that Word starts, and every rectangle lies between 0 and the viewbox
\* width bitWidth * bitsPerRow + 2.
C28_RectsApart ==
    (/\ drawn # <<>> /\ FromValidInput
     /\ bitsPerRow > 0 /\ getConfig.bitWidth > 0 /\ getConfig.paddingX >= 0)
        => /\ drawn[1].viewbox.width = getConfig.bitWidth * bitsPerRow + 2
           /\ \A r \in 1..Len(drawn[1].groups) :
                 /\ \A j \in 1..(Len(Rects(r)) - 1) :
                       Rects(r)[j].x + Rects(r)[j].width <= Rects(r)[j + 1].x
                 /\ \A j \in 1..Len(Rects(r)) :
                       /\ 0 <= Rects(r)[j].x
                       /\ Rects(r)[j].x + Rects(r)[j].width
                             <= drawn[1].viewbox.width

\* a drawing of two rows, the first with two rectangles, the second of them
\* two bits wide and ending at the right edge of the row
C28_Witness ==
    /\ drawn # <<>> /\ FromValidInput
    /\ Len(drawn[1].groups) = 2
    /\ Len(Rects(1)) = 2
    /\ Rects(1)[1].x + Rects(1)[1].width <= Rects(1)[2].x
    /\ Rects(1)[2].width + getConfig.paddingX = 2 * getConfig.bitWidth
    /\ Rects(1)[2].x + Rects(1)[2].width + getConfig.paddingX + 1
          = drawn[1].viewbox.width

(***************************************************************************)
(* C29.  populate leaves its input as it is.                               *)
(***************************************************************************)
\* C29: at every point of a populate call, and when it has returned or
\* raised, the blocks of the diagram it was given have the start, end and
\* label they had when it was called, an omitted end being still omitted.
C29_InputUnchanged ==
    call.active => call.st.blocks = call.ast

\* a call that has returned after laying out a block without end and
\* splitting another one over two rows
C29_Witness ==
    /\ CallEnded /\ call.st.pc = "done"
    /\ \E i \in 1..Len(call.ast) :
          ~HasEnd(call.ast[i]) /\ ~HasEnd(call.st.blocks[i])
    /\ \E i \in 1..Len(call.ast) :
          HasEnd(call.ast[i]) /\ Cardinality(RowsOf(call.ast[i])) = 2
    /\ Len(packet) >= Len(call.base) + 2
    /\ Len(call.base) < MaxStepWords

(***************************************************************************)
(* C30.  populate with bitsPerRow 0 or negative.                           *)
(***************************************************************************)
\* the last operation was a populate call
Called == last.op = "populate"

\* the first block of the call gets into the inner loop and through
\* getNextFittingBlock
FirstAccepted ==
    /\ call.ast # <<>>
    /\ call.ast[1].start = 0
    /\ ~BadRange(call.ast[1])

\* C30 as stated: with bitsPerRow 0 or negative populate returns or raises
\* after at most bitsPerRow + 2 turns of the inner loop for the whole call.
C30_RowGuardStops ==
    (Called /\ bitsPerRow <= 0)
        => /\ populateEnded(call.st)
           /\ call.turns <= Max(bitsPerRow + 2, 0)

\* C30 as the code has it: with bitsPerRow 0 or negative populate returns
\* or raises.  With bitsPerRow <= -2 the row-length guard is false from the
\* start: the inner loop takes no turn and the store stays as it was.  With
\* bitsPerRow 0 or -1 every turn pushes a Word of one sub-block and leaves
\* the accumulator empty, so the row-length guard stays true and the loop
\* goes on until the store holds 10000 Words: once a first block is
\* accepted, the call takes 10000 - (Words at entry) turns and leaves the
\* store at the ceiling.
C30_CeilingStops ==
    (Called /\ bitsPerRow <= 0)
        => /\ populateEnded(call.st)
           /\ call.turns <= MaxPacketSize - Len(call.base)
           /\ IsPrefix(call.base, packet)
           /\ \A k \in (Len(call.base) + 1)..Len(packet) : Len(packet[k]) = 1
           /\ IF bitsPerRow <= -2
              THEN call.turns = 0 /\ packet = call.base
              ELSE FirstAccepted
                     => /\ Len(packet) = MaxPacketSize
                        /\ call.turns = MaxPacketSize - Len(call.base)

\* bitsPerRow 0, a store of one Word: the call returns after 9999 turns
C30_Witness ==
    /\ Called /\ bitsPerRow = 0
    /\ call.st.pc = "done"
    /\ Len(call.base) = 1
    /\ call.turns = MaxPacketSize - 1
    /\ Len(packet) = MaxPacketSize

(***************************************************************************)
(* C7.  clear() and populate of the same input repeat the first run.       *)
(***************************************************************************)
\* C7: a populate made right after clear(), with the input of the
\* session's first run and under the same configuration, leaves the Word
\* sequence (and raises the error) of the first run, whatever populate,
\* pushWord and clear calls, successful or failed, were made in between.
C7_ClearThenPopulateRepeats ==
    (/\ last.op = "populate" /\ last.fresh
     /\ firstRun.made
     /\ last.input = firstRun.input)
        => packet = firstRun.words /\ last.err = firstRun.err

\* the first run's diagram populated again after a clear, with the same Words
C7_Witness ==
    /\ firstRun.again
    /\ last.op = "populate" /\ last.fresh
    /\ last.input = firstRun.input
    /\ Len(firstRun.words) >= 2
    /\ packet = firstRun.words

(***************************************************************************)
(* C8.  clear() empties the store.                                         *)
(***************************************************************************)
\* sub-block x is a part of a block of the diagram, with its label
PartOf(x, blocks) ==
    \E i \in 1..Len(blocks) :
        /\ blocks[i].label = x.label
        /\ blocks[i].start <= x.start /\ x.end <= EndOf(blocks[i])

\* C8: after clear() the store holds no Words, whatever calls preceded it,
\* and the template it is cloned from is never changed; so after a populate
\* that follows a clear() every sub-block of the store is a part of a block
\* of the diagram just populated.
C8_ClearEmptiesStore ==
    /\ template = <<>>
    /\ last.op = "clear" => packet = <<>>
    /\ FreshPopulate =>
          \A w \in 1..Len(packet) : \A j \in 1..Len(packet[w]) :
              PartOf(packet[w][j], last.input)

\* a clear() after a populate that had left Words
C8_Witness ==
    /\ last.op = "clear"
    /\ firstRun.made /\ firstRun.words # <<>>
    /\ packet = <<>>

=============================================================================
